---------------------------- MODULE Spec2Model ----------------------------
(***************************************************************************)
(* A model of SmartOptions (inc/SmartOptions/SmartOptions.hpp): the rule   *)
(* registry (AddFlag / AddOption / AddPositionalArgument), the caller's    *)
(* destination variables the rules point at, and ProcessCommandArgs, the   *)
(* single scan over argv with its post-processing.                         *)
(*                                                                         *)
(* A C string is a sequence of one-character strings without its           *)
(* terminator; reading the terminator gives NUL.  A `const char *` is      *)
(* NULL or Ptr(s).  Standard output is the sequence of lines written.      *)
(***************************************************************************)
EXTENDS Integers, Sequences, FiniteSets, TLC

(***************************************************************************)
(* Bounds of the model.                                                    *)
(***************************************************************************)
MaxRules == 2   \* rules registered in all (flags + options + positionals)
MaxArgs == 3    \* tokens after argv[0]

(***************************************************************************)
(* Characters, strings and pointers.                                       *)
(***************************************************************************)
NULL_TERMINATE == "NUL"

NULL == << >>

Ptr(s) == << s >>

\* An indeterminate pointer: what a caller's variable holds when the caller
\* never assigned it.
Garbage == Ptr(<< "?" >>)

\* token[k] for a C index k (0-based); k = strlen reads the terminator.
CharAt(s, k) == IF k < Len(s) THEN s[k + 1] ELSE NULL_TERMINATE

\* std::string::rfind(ch): the 1-based position of the last ch, 0 for npos.
RFind(s, ch) ==
    IF \E i \in 1..Len(s) : s[i] = ch
    THEN CHOOSE i \in 1..Len(s) : s[i] = ch /\ \A j \in (i + 1)..Len(s) : s[j] # ch
    ELSE 0

\* std::string::replace(loc, n, r) for a position loc that was found.
Replace(s, loc, n, r) == SubSeq(s, 1, loc - 1) \o r \o SubSeq(s, loc + n, Len(s))

\* std::string::erase(pos): keeps the first pos characters.
Erase(s, pos) == SubSeq(s, 1, pos)

(***************************************************************************)
(* The inputs the model draws from.                                        *)
(***************************************************************************)
AppNames == { << "A" >> }

FlagIds == { "a", "o" }

OptionIds == { "o", "p" }

\* GNU-style long identifiers given at registration.
LongIds == { Ptr(<< "l", "o", "n", "g" >>) }

MetaVariables == { << "m" >> }

\* What a caller's pointer variable may hold before it is registered.
PriorPtrs == { NULL, Garbage }

Tokens ==
    { << "x" >>, << "y" >>,
      << "-", "a" >>,
      << "-", "o" >>, << "-", "o", "x" >>,
      << "-", "p" >> }

RECURSIVE SeqsUpTo(_, _)
SeqsUpTo(S, n) ==
    IF n = 0 THEN { << >> }
    ELSE LET shorter == SeqsUpTo(S, n - 1)
         IN  shorter \cup { Append(q, t) : q \in { r \in shorter : Len(r) = n - 1 }, t \in S }

\* argv[0], which the scan skips.
ProgramPath == << "P" >>

ArgVectors == { << ProgramPath >> \o q : q \in SeqsUpTo(Tokens, MaxArgs) }

(***************************************************************************)
(* The diagnostic texts.                                                   *)
(***************************************************************************)
ErrMissingValuePrefix ==
    <<":", " ", "E", "r", "r", "o", "r", ",", " ", "m", "i", "s", "s", "i", "n", "g", " ", "v", "a", "l", "u", "e", " ", "f", "o", "r", " ", "'", "-">>

ErrMissingValueSuffix ==
    <<"'", " ", "o", "p", "t", "i", "o", "n", ".">>

ErrInvalidArgPrefix ==
    <<":", " ", "E", "r", "r", "o", "r", ",", " ", "i", "n", "v", "a", "l", "i", "d", " ", "a", "r", "g", "u", "m", "e", "n", "t", " ", "'", "-">>

ErrInvalidArgSuffix ==
    <<"'", ".">>

ErrInvalidNumber ==
    <<":", " ", "E", "r", "r", "o", "r", ",", " ", "i", "n", "v", "a", "l", "i", "d", " ", "n", "u", "m", "b", "e", "r", " ", "o", "f", " ", "m", "a", "n", "d", "a", "t", "o", "r", "y", " ", "a", "r", "g", "u", "m", "e", "n", "t", "s">>

OnlyMandatory ==
    <<".", " ", "T", "h", "e", " ", "o", "n", "l", "y", " ", "m", "a", "n", "d", "a", "t", "o", "r", "y", " ", "p", "a", "r", "a", "m", "e", "t", "e", "r", " ", "i", "s", " ", "'">>

MandatoryAre ==
    <<".", " ", "T", "h", "e", " ", "m", "a", "n", "d", "a", "t", "o", "r", "y", " ", "p", "a", "r", "a", "m", "e", "t", "e", "r", "s", " ", "a", "r", "e", " ">>

(***************************************************************************)
(* State.                                                                  *)
(*   so   : the SmartOptions object (its member variables)                 *)
(*   mem  : the caller's destination variables, one per registered rule,   *)
(*          in registration order (what the destVariable pointers point at)*)
(*   call : the activation of ProcessCommandArgs: its position, its locals *)
(*          and the status it returned                                     *)
(*   out  : the lines written to standard output                           *)
(***************************************************************************)
VARIABLES so, mem, call, out

vars == << so, mem, call, out >>

NoCall ==
    [ pc               |-> "idle",
      index            |-> 0,
      posArgsCount     |-> 0,
      posArgsIt        |-> 0,
      strPosArgErrMsg  |-> << >>,
      strErrMessage    |-> << >>,
      isTokenProcessed |-> FALSE,
      consumed         |-> {},
      status           |-> "NONE" ]

Init ==
    /\ \E programName \in AppNames, autoPrintHelp \in BOOLEAN :
          so = [ argC          |-> 0,
                 argV          |-> << >>,
                 appName       |-> programName,
                 autoPrintHelp |-> autoPrintHelp,
                 options       |-> << >>,
                 flags         |-> << >>,
                 posArgs       |-> << >> ]
    /\ mem = [ flag |-> << >>, opt |-> << >>, pos |-> << >> ]
    /\ call = NoCall
    /\ out = << >>


(***************************************************************************)
(* Registration.  Each constructor is given the value the caller's         *)
(* variable held and yields the value it holds once the rule is built.     *)
(***************************************************************************)
SmartOptionsFlagArg(prior) == FALSE

\* SmartOptionsOptionArg with a fault: the destination is not initialised.
SmartOptionsOptionArg_Uninitialised(prior) == prior

SmartOptionsOptionArg(prior) == NULL

SmartOptionsPositionalArg(prior) == prior

Registering == call.pc = "idle"

RuleCount == Len(so.flags) + Len(so.options) + Len(so.posArgs)

AddFlag(prefixShort, prefixLong, prior) ==
    /\ Registering
    /\ RuleCount < MaxRules
    /\ so' = [so EXCEPT !.flags =
                 Append(@, [prefixShort |-> prefixShort, prefixLong |-> prefixLong])]
    /\ mem' = [mem EXCEPT !.flag = Append(@, SmartOptionsFlagArg(prior))]
    /\ UNCHANGED << call, out >>

AddOption(prefixShort, prefixLong, metaVariable, prior) ==
    /\ Registering
    /\ RuleCount < MaxRules
    /\ so' = [so EXCEPT !.options =
                 Append(@, [prefixShort  |-> prefixShort,
                            prefixLong   |-> prefixLong,
                            metaVariable |-> metaVariable])]
    /\ mem' = [mem EXCEPT !.opt = Append(@, SmartOptionsOptionArg(prior))]
    /\ UNCHANGED << call, out >>

AddPositionalArgument(metaVariable, prior) ==
    /\ Registering
    /\ RuleCount < MaxRules
    /\ so' = [so EXCEPT !.posArgs = Append(@, [metaVariable |-> metaVariable])]
    /\ mem' = [mem EXCEPT !.pos = Append(@, SmartOptionsPositionalArg(prior))]
    /\ UNCHANGED << call, out >>

(***************************************************************************)
(* Help rendering.                                                         *)
(***************************************************************************)
RECURSIVE OptionLines(_)
OptionLines(options) ==
    IF options = << >> THEN << >>
    ELSE << [ kind |-> "option",
              text |-> << " ", " ", "-", Head(options).prefixShort, " ", "<" >>
                       \o Head(options).metaVariable \o << ">", " " >> ] >>
         \o OptionLines(Tail(options))

RECURSIVE FlagLines(_)
FlagLines(flags) ==
    IF flags = << >> THEN << >>
    ELSE << [ kind |-> "flag", text |-> << " ", " ", "-", Head(flags).prefixShort >> ] >>
         \o FlagLines(Tail(flags))

PrintHelp(s) ==
    << [ kind |-> "usage", text |-> s.appName ] >>
    \o OptionLines(s.options) \o FlagLines(s.flags)

AutoPrintHelp(s) == IF s.autoPrintHelp THEN PrintHelp(s) ELSE << >>

Diag(text) == [ kind |-> "diag", text |-> text ]

(***************************************************************************)
(* The scan: one iteration of the loop over argv.                          *)
(***************************************************************************)
\* argv[i], i a C index.
Arg(s, i) == s.argV[i + 1]

IsMarker(token) == CharAt(token, 0) = "-"

\* FirstMatch with a fault: the comparison always succeeds, so the first rule
\* of a non-empty list matches whatever the identifier.
FirstMatch_AnyId(rules, ch) == IF Len(rules) > 0 THEN 1 ELSE 0

\* FirstMatch with a fault: a rule also matches on the first character of
\* its long identifier.
FirstMatch_LongToo(rules, ch) ==
    LET hit(k) == \/ rules[k].prefixShort = ch
                  \/ /\ rules[k].prefixLong # NULL
                     /\ CharAt(rules[k].prefixLong[1], 0) = ch
    IN  IF \E k \in 1..Len(rules) : hit(k)
        THEN CHOOSE k \in 1..Len(rules) : hit(k) /\ \A j \in 1..(k - 1) : ~hit(j)
        ELSE 0

\* FirstMatch with a fault: the loop does not break at the first hit, so
\* the last rule with the identifier is the one that is left.
FirstMatch_LastWins(rules, ch) ==
    IF \E k \in 1..Len(rules) : rules[k].prefixShort = ch
    THEN CHOOSE k \in 1..Len(rules) :
            /\ rules[k].prefixShort = ch
            /\ \A j \in (k + 1)..Len(rules) : rules[j].prefixShort # ch
    ELSE 0

\* The first rule whose short identifier is ch, 0 when there is none.
FirstMatch(rules, ch) ==
    IF \E k \in 1..Len(rules) : rules[k].prefixShort = ch
    THEN CHOOSE k \in 1..Len(rules) :
            /\ rules[k].prefixShort = ch
            /\ \A j \in 1..(k - 1) : rules[j].prefixShort # ch
    ELSE 0

\* HasAttachedValue with a fault: the terminator is not looked at.
HasAttachedValue_Unchecked(body) == TRUE

\* body is the token past its marker, body[0] the identifier.
HasAttachedValue(body) == CharAt(body, 1) # NULL_TERMINATE

\* AttachedValue with a fault: the pointer is not advanced past the identifier.
AttachedValue_KeepsId(body) == body

AttachedValue(body) == Tail(body)

\* IsLastToken with a fault: the bound is one too small.
IsLastToken_OneEarly(index, argc) == index >= argc - 2

IsLastToken(index, argc) == index >= argc - 1

\* SkipValue with a fault: the value is read at index + 1 but the index is
\* not moved onto it, so the loop's increment lands on the value.
SkipValue_IndexNotAdvanced(index) == index + 1

\* SkipValue with a fault: the index is moved one token too far.
SkipValue_TwoPast(index) == index + 3

\* The index after a separated value: ++index onto the value, then the
\* loop's index++.
SkipValue(index) == index + 2

MissingValueMessage(ch) == ErrMissingValuePrefix \o << ch >> \o ErrMissingValueSuffix

InvalidArgumentLine(s, strErrMessage, ch) ==
    IF strErrMessage # << >>
    THEN s.appName \o strErrMessage
    ELSE s.appName \o ErrInvalidArgPrefix \o << ch >> \o ErrInvalidArgSuffix

\* InvalidArgument with a fault: the flags set by the tokens before the
\* failing one are cleared on the way out.
InvalidArgument_DropsBindings(s, m, c, o, strErrMessage, ch) ==
    [ mem  |-> [m EXCEPT !.flag = [k \in 1..Len(m.flag) |-> FALSE]],
      call |-> [c EXCEPT !.strErrMessage = strErrMessage,
                         !.isTokenProcessed = FALSE,
                         !.status = "INVALID_ARGUMENT",
                         !.pc = "done"],
      out  |-> o \o (IF s.autoPrintHelp
                     THEN << Diag(InvalidArgumentLine(s, strErrMessage, ch)) >>
                     ELSE << >>)
                \o AutoPrintHelp(s) ]

\* The token was matched by no rule (or its value is missing): print, return.
InvalidArgument(s, m, c, o, strErrMessage, ch) ==
    [ mem  |-> m,
      call |-> [c EXCEPT !.strErrMessage = strErrMessage,
                         !.isTokenProcessed = FALSE,
                         !.status = "INVALID_ARGUMENT",
                         !.pc = "done"],
      out  |-> o \o (IF s.autoPrintHelp
                     THEN << Diag(InvalidArgumentLine(s, strErrMessage, ch)) >>
                     ELSE << >>)
                \o AutoPrintHelp(s) ]

\* FlagKey with a fault: a flag token must be the identifier and nothing
\* more, a longer body compares as the terminator.
FlagKey_WholeBody(body) == IF Len(body) = 1 THEN body[1] ELSE NULL_TERMINATE

\* The character a flag's short identifier is compared with: *(char*)token.
FlagKey(body) == CharAt(body, 0)

MatchToken(s, m, c, o) ==
    LET body == Tail(Arg(s, c.index))
        ch   == CharAt(body, 0)
        f    == FirstMatch(s.flags, FlagKey(body))
        p    == FirstMatch(s.options, ch)
    IN  IF f # 0
        THEN [ mem  |-> [m EXCEPT !.flag[f] = TRUE],
               call |-> [c EXCEPT !.isTokenProcessed = TRUE, !.index = @ + 1],
               out  |-> o ]
        ELSE IF p = 0
        THEN InvalidArgument(s, m, c, o, c.strErrMessage, ch)
        ELSE IF HasAttachedValue(body)
        THEN [ mem  |-> [m EXCEPT !.opt[p] = Ptr(AttachedValue(body))],
               call |-> [c EXCEPT !.isTokenProcessed = TRUE, !.index = @ + 1],
               out  |-> o ]
        ELSE IF IsLastToken(c.index, s.argC)
        THEN InvalidArgument(s, m, c, o, MissingValueMessage(ch), ch)
        ELSE [ mem  |-> [m EXCEPT !.opt[p] = Ptr(Arg(s, c.index + 1))],
               call |-> [c EXCEPT !.isTokenProcessed = TRUE,
                                  !.consumed = @ \cup { c.index + 1 },
                                  !.index = SkipValue(@)],
               out  |-> o ]

ConsumePositional(s, m, c, o) ==
    LET token == Arg(s, c.index)
    IN  IF c.posArgsIt < Len(s.posArgs)
        THEN [ mem  |-> [m EXCEPT !.pos[c.posArgsIt + 1] = Ptr(token)],
               call |-> [c EXCEPT !.isTokenProcessed = FALSE,
                                  !.posArgsIt = @ + 1,
                                  !.posArgsCount = @ + 1,
                                  !.index = @ + 1],
               out  |-> o ]
        ELSE [ mem  |-> m,
               call |-> [c EXCEPT !.isTokenProcessed = FALSE,
                                  !.strPosArgErrMsg =
                                      IF @ = << >>
                                      THEN s.appName \o ErrInvalidNumber \o << " ", "(" >> \o token
                                      ELSE @ \o << ",", " " >> \o token,
                                  !.posArgsCount = @ + 1,
                                  !.index = @ + 1],
               out  |-> o ]

ProcessToken(s, m, c, o) ==
    IF IsMarker(Arg(s, c.index))
    THEN MatchToken(s, m, c, o)
    ELSE ConsumePositional(s, m, c, o)


(***************************************************************************)
(* After the loop: the surplus message is closed and its last comma        *)
(* rewritten; then the arity is validated.  replace() at npos throws       *)
(* std::out_of_range, which leaves ProcessCommandArgs without a status.    *)
(***************************************************************************)
Thrown(m, c, o) == [ mem |-> m, call |-> [c EXCEPT !.pc = "thrown"], out |-> o ]

\* strMsg.replace(strMsg.rfind(","), 1, " &"): the string, or the exception.
RewriteLastComma(strMsg) ==
    LET loc == RFind(strMsg, ",")
    IN  IF loc = 0
        THEN [ thrown |-> TRUE, str |-> strMsg ]
        ELSE [ thrown |-> FALSE, str |-> Replace(strMsg, loc, 1, << " ", "&" >>) ]

FixPosArgErrMsg(s, m, c, o) ==
    IF c.strPosArgErrMsg = << >>
    THEN [ mem |-> m, call |-> [c EXCEPT !.pc = "validate"], out |-> o ]
    ELSE LET fixed == RewriteLastComma(c.strPosArgErrMsg \o << ")" >>)
         IN  IF fixed.thrown
             THEN Thrown(m, [c EXCEPT !.strPosArgErrMsg = fixed.str], o)
             ELSE [ mem  |-> m,
                    call |-> [c EXCEPT !.strPosArgErrMsg = fixed.str, !.pc = "validate"],
                    out  |-> o ]

\* ArityMismatch with a fault: only one direction of the mismatch is caught.
ArityMismatch_OnlyTooFew(posArgsCount, size) == posArgsCount < size

ArityMismatch_OnlyTooMany(posArgsCount, size) == posArgsCount > size

ArityMismatch(posArgsCount, size) == posArgsCount # size

RECURSIVE MetaList(_)
MetaList(posArgs) ==
    IF posArgs = << >> THEN << >>
    ELSE << "'" >> \o Head(posArgs).metaVariable \o << "'", ",", " " >>
         \o MetaList(Tail(posArgs))

\* strMsg with the mandatory-parameter clause appended, or the exception.
MandatoryClause(s, strMsg) ==
    IF Len(s.posArgs) = 1
    THEN [ thrown |-> FALSE,
           str    |-> strMsg \o OnlyMandatory \o s.posArgs[1].metaVariable \o << "'" >> ]
    ELSE LET listed  == strMsg \o MandatoryAre \o MetaList(s.posArgs)
             erased  == Erase(listed, Len(listed) - 2)
             rewrote == RewriteLastComma(erased)
         IN  IF rewrote.thrown THEN rewrote
             ELSE [ thrown |-> FALSE, str |-> rewrote.str \o << "." >> ]

PostValidate(s, m, c, o) ==
    IF ArityMismatch(c.posArgsCount, Len(s.posArgs))
    THEN LET strMsg == IF c.strPosArgErrMsg = << >>
                       THEN s.appName \o ErrInvalidNumber
                       ELSE c.strPosArgErrMsg
             clause == IF s.autoPrintHelp
                       THEN MandatoryClause(s, strMsg)
                       ELSE [ thrown |-> FALSE, str |-> strMsg ]
         IN  IF clause.thrown
             THEN Thrown(m, [c EXCEPT !.strPosArgErrMsg = clause.str], o)
             ELSE [ mem  |-> m,
                    call |-> [c EXCEPT !.strPosArgErrMsg = clause.str,
                                       !.status = "INVALID_NUMBEROF_ARGUMENTS",
                                       !.pc = "done"],
                    out  |-> o \o (IF s.autoPrintHelp THEN << Diag(clause.str) >> ELSE << >>)
                              \o AutoPrintHelp(s) ]
    ELSE [ mem  |-> m,
           call |-> [c EXCEPT !.status = "SUCCESS", !.pc = "done"],
           out  |-> o ]

(***************************************************************************)
(* ProcessCommandArgs, step by step.                                       *)
(***************************************************************************)
\* Entry: useCommandArgs and the locals' initial values.
Enter(s, argv) == [s EXCEPT !.argC = Len(argv), !.argV = argv]

EnterCall == [NoCall EXCEPT !.pc = "scan", !.index = 1]

\* What the next step of the call does, from any position short of the end.
Step(s, m, c, o) ==
    IF c.pc = "scan"
    THEN IF c.index < s.argC THEN ProcessToken(s, m, c, o) ELSE FixPosArgErrMsg(s, m, c, o)
    ELSE PostValidate(s, m, c, o)

Ended(c) == c.pc \in { "done", "thrown" }

ProcessCommandArgs(argv) ==
    /\ call.pc = "idle"
    /\ so' = Enter(so, argv)
    /\ call' = EnterCall
    /\ UNCHANGED << mem, out >>

Take(result) ==
    \E r \in { result } :
        /\ mem' = r.mem
        /\ call' = r.call
        /\ out' = r.out
        /\ UNCHANGED so

ScanToken ==
    /\ call.pc = "scan"
    /\ call.index < so.argC
    /\ Take(ProcessToken(so, mem, call, out))

EndOfScan ==
    /\ call.pc = "scan"
    /\ call.index >= so.argC
    /\ Take(FixPosArgErrMsg(so, mem, call, out))

Validate ==
    /\ call.pc = "validate"
    /\ Take(PostValidate(so, mem, call, out))

Next ==
    \/ \E c \in FlagIds, long \in LongIds, prior \in BOOLEAN : AddFlag(c, long, prior)
    \/ \E c \in OptionIds, long \in LongIds, mv \in MetaVariables, prior \in PriorPtrs :
          AddOption(c, long, mv, prior)
    \/ \E mv \in MetaVariables, prior \in PriorPtrs : AddPositionalArgument(mv, prior)
    \/ \E argv \in ArgVectors : ProcessCommandArgs(argv)
    \/ ScanToken
    \/ EndOfScan
    \/ Validate

Spec == Init /\ [][Next]_vars

(***************************************************************************)
(* ProcessCommandArgs as a function of the registry, the destinations and  *)
(* argv: the steps above run to the end.                                   *)
(***************************************************************************)
RECURSIVE RunFrom(_, _, _, _)
RunFrom(s, m, c, o) ==
    IF Ended(c) THEN [ mem |-> m, call |-> c, out |-> o ]
    ELSE LET r == Step(s, m, c, o) IN RunFrom(s, r.mem, r.call, r.out)

Parse(s, m, argv) == RunFrom(Enter(s, argv), m, EnterCall, << >>)


(***************************************************************************)
(* Vocabulary of the properties.                                           *)
(***************************************************************************)
Min(a, b) == IF a <= b THEN a ELSE b

\* The C indices of the tokens after argv[0].
TokenIdx == 1..(so.argC - 1)

\* The call has just been entered: no token has been scanned yet.
AtEntry == call = EnterCall

Body(i) == Tail(Arg(so, i))

Id(i) == CharAt(Body(i), 0)

IsFlagId(ch) == \E k \in 1..Len(so.flags) : so.flags[k].prefixShort = ch

IsOptionId(ch) == \E k \in 1..Len(so.options) : so.options[k].prefixShort = ch

\* The tokens the scan classified or will classify: those it did not read
\* as the separated value of an option.
Classified == { i \in TokenIdx : i \notin call.consumed }

MarkerIdx == { i \in Classified : IsMarker(Arg(so, i)) }

PlainIdx == { i \in Classified : ~IsMarker(Arg(so, i)) }

\* The k-th positional token of the vector.
PlainAt(k) == CHOOSE i \in PlainIdx : Cardinality({ j \in PlainIdx : j <= i }) = k

AllPlain == \A i \in TokenIdx : ~IsMarker(Arg(so, i))

Failure == { "INVALID_ARGUMENT", "INVALID_NUMBEROF_ARGUMENTS" }


(***************************************************************************)
(* C1.  Arity exactness: with N >= 1 positional rules and a vector of      *)
(* plain tokens only, the call returns; N tokens give SUCCESS, N - 1 and   *)
(* N + 1 tokens give INVALID_NUMBEROF_ARGUMENTS, and in each case the      *)
(* first min(tokens, N) destinations hold the first tokens, in order.      *)
(***************************************************************************)
C1_ArityExactness ==
    LET N == Len(so.posArgs)
        T == so.argC - 1
    IN  (Ended(call) /\ N >= 1 /\ AllPlain /\ T \in { N - 1, N, N + 1 }) =>
           /\ call.pc = "done"
           /\ call.status = IF T = N THEN "SUCCESS" ELSE "INVALID_NUMBEROF_ARGUMENTS"
           /\ \A k \in 1..Min(T, N) : mem.pos[k] = Ptr(Arg(so, k))

\* Two rules, three plain tokens, auto-help on: the surplus case has run.
C1_Witness ==
    /\ call.pc = "done"
    /\ Len(so.posArgs) = 2
    /\ so.argC - 1 = 3
    /\ AllPlain
    /\ so.autoPrintHelp
    /\ call.status = "INVALID_NUMBEROF_ARGUMENTS"
    /\ mem.pos = << Ptr(Arg(so, 1)), Ptr(Arg(so, 2)) >>
    /\ Arg(so, 1) # Arg(so, 2)


(***************************************************************************)
(* Attached and separated forms of one option token.                       *)
(***************************************************************************)
\* Token i is '-o' followed by a non-empty value, o a registered option.
IsAttachedOption(i) ==
    /\ IsMarker(Arg(so, i))
    /\ Len(Arg(so, i)) >= 3
    /\ IsOptionId(Id(i))

\* argv with token i split into the two tokens '-o' and the value.
Separated(i) ==
    SubSeq(so.argV, 1, i)
    \o << << "-", Id(i) >>, Tail(Body(i)) >>
    \o SubSeq(so.argV, i + 2, Len(so.argV))

SameOutcome(r1, r2) ==
    /\ r1.call.pc = r2.call.pc
    /\ r1.call.status = r2.call.status
    /\ r1.mem = r2.mem

(***************************************************************************)
(* C2 as stated.  For every token '-o'+v of a registered option o, the     *)
(* vector and the vector with that token split into '-o', v give the same  *)
(* status and the same destinations, wherever the token stands and         *)
(* whatever accompanies it.                                                *)
(***************************************************************************)
C2_AttachedEqualsSeparated ==
    AtEntry =>
       \A i \in TokenIdx :
          IsAttachedOption(i) =>
             SameOutcome(Parse(so, mem, so.argV), Parse(so, mem, Separated(i)))

(***************************************************************************)
(* C2 as amended.  The same, for a token that the scan classifies (it is   *)
(* not read as the separated value of the option before it) and whose      *)
(* identifier no registered flag shares.                                   *)
(***************************************************************************)
C2_AttachedEqualsSeparated_Amended ==
    AtEntry =>
       LET attached == Parse(so, mem, so.argV)
       IN  \A i \in TokenIdx :
              (/\ IsAttachedOption(i)
               /\ ~IsFlagId(Id(i))
               /\ i \notin attached.call.consumed) =>
                 SameOutcome(attached, Parse(so, mem, Separated(i)))

\* An attached option token follows another token, is classified, and the
\* parse of the vector binds its value and succeeds.
C2_Witness ==
    /\ AtEntry
    /\ \E i \in TokenIdx :
          /\ i >= 2
          /\ IsAttachedOption(i)
          /\ ~IsFlagId(Id(i))
          /\ LET attached == Parse(so, mem, so.argV)
             IN  /\ i \notin attached.call.consumed
                 /\ attached.call.status = "SUCCESS"
                 /\ \E p \in 1..Len(so.options) :
                       attached.mem.opt[p] = Ptr(Tail(Body(i)))
                 /\ SameOutcome(attached, Parse(so, mem, Separated(i)))

(***************************************************************************)
(* C3.  The call always ends by returning SUCCESS, INVALID_ARGUMENT or     *)
(* INVALID_NUMBEROF_ARGUMENTS: it never ends in an exception (each         *)
(* rewriting of the last ',' finds a ',') and never returns SYSTEM_ERROR.  *)
(***************************************************************************)
C3_DefiniteStatus ==
    /\ call.pc # "thrown"
    /\ call.pc = "done" => call.status \in { "SUCCESS" } \cup Failure

(***************************************************************************)
(* C4.  Registration initialises the destination: as long as only          *)
(* registrations have happened, every flag destination is false and every  *)
(* option and every positional destination is NULL, whatever the caller's  *)
(* variable held.                                                          *)
(***************************************************************************)
C4_RegistrationInitialises ==
    Registering =>
       /\ \A k \in 1..Len(mem.flag) : mem.flag[k] = FALSE
       /\ \A k \in 1..Len(mem.opt) : mem.opt[k] = NULL
       /\ \A k \in 1..Len(mem.pos) : mem.pos[k] = NULL


(***************************************************************************)
(* C5.  Unknown short identifier: once the scan has reached a classified   *)
(* '-' token whose identifier is that of no registered flag and no         *)
(* registered option, the call has returned INVALID_ARGUMENT, whatever the *)
(* other tokens and however many positional tokens there are; the scan     *)
(* never goes past such a token.                                           *)
(***************************************************************************)
IsUnknown(i) ==
    /\ i \in MarkerIdx
    /\ ~IsFlagId(Id(i))
    /\ ~IsOptionId(Id(i))

C5_UnknownIdentifier ==
    /\ call.pc = "scan" => \A i \in TokenIdx : i < call.index => ~IsUnknown(i)
    /\ call.pc \in { "validate", "done", "thrown" } =>
          ((\E i \in TokenIdx : i <= call.index /\ IsUnknown(i)) =>
              call.pc = "done" /\ call.status = "INVALID_ARGUMENT")

\* An unknown '-' token was reached after a surplus positional token.
C5_Witness ==
    /\ call.pc = "done"
    /\ call.status = "INVALID_ARGUMENT"
    /\ call.index \in TokenIdx
    /\ IsUnknown(call.index)
    /\ call.posArgsCount > Len(so.posArgs)
    /\ Len(so.flags) + Len(so.options) > 0

(***************************************************************************)
(* C6.  Missing option value at the end of the input: when the scan is at  *)
(* the last token and that token is exactly '-o' for a registered option o *)
(* whose identifier no flag shares, the step returns INVALID_ARGUMENT,     *)
(* leaves every destination as it was, and does not mark the token         *)
(* handled; o's destination is then NULL unless an earlier token of the    *)
(* vector named o.                                                         *)
(***************************************************************************)
AtMissingValue ==
    /\ call.pc = "scan"
    /\ call.index = so.argC - 1
    /\ IsMarker(Arg(so, call.index))
    /\ Len(Arg(so, call.index)) = 2
    /\ IsOptionId(Id(call.index))
    /\ ~IsFlagId(Id(call.index))

NamedBefore(ch, index) ==
    \E i \in MarkerIdx : i < index /\ Id(i) = ch

IsMatched(i) ==
    \/ IsFlagId(Id(i))
    \/ /\ IsOptionId(Id(i))
       /\ (Len(Body(i)) >= 2 \/ i < so.argC - 1)

C7_SuccessIff ==
    Ended(call) =>
       /\ call.status = "SUCCESS" <=>
             /\ \A i \in MarkerIdx : IsMatched(i)
             /\ Cardinality(PlainIdx) = Len(so.posArgs)
       /\ call.status = "SUCCESS" =>
             /\ call.pc = "done"
             /\ call.posArgsIt = Len(so.posArgs)
             /\ call.strPosArgErrMsg = << >>
             /\ \A k \in 1..Len(so.posArgs) : mem.pos[k] = Ptr(Arg(so, PlainAt(k)))

\* A successful parse of a vector with a '-' token, a separated value and
\* a positional token.
C7_Witness ==
    /\ call.pc = "done"
    /\ call.status = "SUCCESS"
    /\ MarkerIdx # {}
    /\ call.consumed # {}
    /\ Len(so.posArgs) = 1
    /\ mem.pos[1] = Ptr(Arg(so, PlainAt(1)))

(***************************************************************************)
(* C8.  Rules never mentioned keep their initial value: after SUCCESS a    *)
(* flag whose identifier is the identifier of no classified '-' token is   *)
(* false, and an option whose identifier is the identifier of no           *)
(* classified '-' token is NULL.                                           *)
(***************************************************************************)
Mentioned(ch) == \E i \in MarkerIdx : Id(i) = ch

C8_UnmentionedKeepInitial ==
    (call.pc = "done" /\ call.status = "SUCCESS") =>
       /\ \A f \in 1..Len(so.flags) :
             ~Mentioned(so.flags[f].prefixShort) => mem.flag[f] = FALSE
       /\ \A p \in 1..Len(so.options) :
             ~Mentioned(so.options[p].prefixShort) => mem.opt[p] = NULL

\* A successful parse that bound one option and left another unmentioned.
C8_Witness ==
    /\ call.pc = "done"
    /\ call.status = "SUCCESS"
    /\ MarkerIdx # {}
    /\ Len(so.options) = 2
    /\ \E p, q \in 1..2 :
          /\ Mentioned(so.options[p].prefixShort)
          /\ mem.opt[p] # NULL
          /\ ~Mentioned(so.options[q].prefixShort)
          /\ mem.opt[q] = NULL

(***************************************************************************)
(* C9.  Surplus-positional diagnostic: after the scan, with k >= 1 surplus *)
(* tokens t1..tk, the message is "<appName>: Error, invalid number of      *)
(* mandatory arguments (" then the surplus tokens joined by ", ", the      *)
(* separator before the last one being " & ", then ")"; the prefix is      *)
(* intact for every k.                                                     *)
(***************************************************************************)
SurplusCount == Cardinality(PlainIdx) - Len(so.posArgs)

RECURSIVE JoinSurplus(_)
JoinSurplus(k) ==
    LET token == Arg(so, PlainAt(Len(so.posArgs) + k))
    IN  IF k = 1 THEN token
        ELSE JoinSurplus(k - 1)
             \o (IF k = SurplusCount THEN << " ", "&", " " >> ELSE << ",", " " >>)
             \o token

C9_SurplusMessage ==
    (call.pc = "validate" /\ SurplusCount >= 1) =>
       call.strPosArgErrMsg =
          so.appName \o ErrInvalidNumber \o << " ", "(" >>
          \o JoinSurplus(SurplusCount) \o << ")" >>

(***************************************************************************)
(* C10.  Diagnostic output policy: the call writes a diagnostic line       *)
(* followed by the help rendering if and only if it ends on a failure path *)
(* and auto-help is enabled; on SUCCESS, and with auto-help disabled,      *)
(* nothing is written.                                                     *)
(***************************************************************************)
C10_OutputPolicy ==
    /\ ~Ended(call) => out = << >>
    /\ Ended(call) =>
          IF so.autoPrintHelp /\ call.status # "SUCCESS"
          THEN /\ Len(out) >= 2
               /\ out[1].kind = "diag"
               /\ Tail(out) = PrintHelp(so)
          ELSE out = << >>


(***************************************************************************)
(* Option tokens built for the properties about pairs of vectors.          *)
(***************************************************************************)
OptionValues == { << "x" >>, << "y" >>, << "-", "o" >> }

Forms == { "attached", "separated" }

\* The tokens that give option ch the value v, in either form.
OptionTokens(ch, v, form) ==
    IF form = "attached" THEN << << "-", ch >> \o v >> ELSE << << "-", ch >>, v >>

\* The destination of the option that a token naming ch binds.
OptionDest(m, ch) ==
    m.opt[CHOOSE k \in 1..Len(so.options) :
             /\ so.options[k].prefixShort = ch
             /\ \A j \in 1..(k - 1) : so.options[j].prefixShort # ch]

\* The destinations as they were when the call was entered, for a vector
\* that holds option tokens only.
OptionsUnbound == [mem EXCEPT !.opt = [k \in 1..Len(mem.opt) |-> NULL]]

(***************************************************************************)
(* C11.  Order independence across distinct option identifiers: for        *)
(* registered options o # p that no flag shares and non-empty values X, Y, *)
(* the tokens for o = X followed by the tokens for p = Y, and the same in  *)
(* the opposite order, give the same status and the same destinations,     *)
(* with o == X and p == Y, in the attached and the separated form of each. *)
(* Stated of every registry before the call, and of every call that ran on *)
(* such a vector.                                                          *)
(***************************************************************************)
DistinctOptionPairs ==
    { pair \in OptionIds \X OptionIds :
         /\ pair[1] # pair[2]
         /\ IsOptionId(pair[1]) /\ IsOptionId(pair[2])
         /\ ~IsFlagId(pair[1]) /\ ~IsFlagId(pair[2]) }

OrderIndependent(m, o, X, fo, p, Y, fp) ==
    LET first  == Parse(so, m, << ProgramPath >> \o OptionTokens(o, X, fo) \o OptionTokens(p, Y, fp))
        second == Parse(so, m, << ProgramPath >> \o OptionTokens(p, Y, fp) \o OptionTokens(o, X, fo))
    IN  /\ SameOutcome(first, second)
        /\ first.call.pc = "done"
        /\ OptionDest(first.mem, o) = Ptr(X)
        /\ OptionDest(first.mem, p) = Ptr(Y)

C11_OrderIndependence ==
    /\ Registering =>
          \A pair \in DistinctOptionPairs, X \in OptionValues, Y \in OptionValues,
             fo \in Forms, fp \in Forms :
                OrderIndependent(mem, pair[1], X, fo, pair[2], Y, fp)
    /\ Ended(call) =>
          \A pair \in DistinctOptionPairs, X \in OptionValues, Y \in OptionValues,
             fo \in Forms, fp \in Forms :
                so.argV = << ProgramPath >> \o OptionTokens(pair[1], X, fo)
                                           \o OptionTokens(pair[2], Y, fp) =>
                   /\ OrderIndependent(OptionsUnbound, pair[1], X, fo, pair[2], Y, fp)
                   /\ SameOutcome([ mem |-> mem, call |-> call ],
                                  Parse(so, OptionsUnbound, so.argV))

\* The call ran on '-ox', '-p', 'y' with options o and p registered and
\* bound both; the opposite order gives the same.
C11_Witness ==
    /\ call.pc = "done"
    /\ call.status = "SUCCESS"
    /\ so.argV = << ProgramPath, << "-", "o", "x" >>, << "-", "p" >>, << "y" >> >>
    /\ << "o", "p" >> \in DistinctOptionPairs
    /\ OptionDest(mem, "o") = Ptr(<< "x" >>)
    /\ OptionDest(mem, "p") = Ptr(<< "y" >>)
    /\ OrderIndependent(OptionsUnbound, "o", << "x" >>, "attached", "p", << "y" >>, "separated")


(***************************************************************************)
(* C12.  Long identifiers never take part in matching: whatever long       *)
(* identifiers the flags and options of the registry are given instead of  *)
(* theirs, the call on the same vector ends with the same status, the same *)
(* destinations and the same output; and a token '--<long>' for a          *)
(* registered long identifier, put in front of the vector, is matched on   *)
(* its first body character '-' alone: the call returns INVALID_ARGUMENT   *)
(* at that token and binds nothing (no rule has '-' as short identifier).  *)
(***************************************************************************)
LongVariants == { NULL, Ptr(<< "o", "x" >>) }

Relabel(rules, long) ==
    [ k \in 1..Len(rules) |-> [rules[k] EXCEPT !.prefixLong = long[k]] ]

Relabelled(fl, ol) ==
    [so EXCEPT !.flags = Relabel(so.flags, fl), !.options = Relabel(so.options, ol)]

RegisteredLongs ==
    { so.flags[k].prefixLong : k \in 1..Len(so.flags) }
    \cup { so.options[k].prefixLong : k \in 1..Len(so.options) }

LongToken(long) == << "-", "-" >> \o long[1]

AtSeparatedOption ==
    /\ call.pc = "scan"
    /\ call.index < so.argC - 1
    /\ IsMarker(Arg(so, call.index))
    /\ Len(Arg(so, call.index)) = 2
    /\ IsOptionId(Id(call.index))

\* The step binds the following token to o's destination and passes over
\* it: no flag, no other option and no positional slot is written, nothing
\* is counted or printed, the call goes on, behind the value.
BindsAndSkipsNext ==
    /\ OptionDest(mem', Id(call.index)) = Ptr(Arg(so, call.index + 1))
    /\ \A k \in 1..Len(so.options) :
          mem'.opt[k] # mem.opt[k] => mem'.opt[k] = Ptr(Arg(so, call.index + 1))
    /\ Cardinality({ k \in 1..Len(so.options) : mem'.opt[k] # mem.opt[k] }) <= 1
    /\ mem'.flag = mem.flag
    /\ mem'.pos = mem.pos
    /\ call'.posArgsCount = call.posArgsCount
    /\ call'.posArgsIt = call.posArgsIt
    /\ call'.strPosArgErrMsg = call.strPosArgErrMsg
    /\ call'.pc = "scan"
    /\ call'.status = "NONE"
    /\ call'.index = call.index + 2
    /\ call'.consumed = call.consumed \cup { call.index + 1 }
    /\ out' = out

(***************************************************************************)
(* C13 as stated.  When a token is exactly '-o' for a registered option o  *)
(* and is not the last token, the next token is bound to o's destination   *)
(* unconditionally and is never itself classified.                         *)
(***************************************************************************)
C13_SeparatedValueSkipped ==
    [][ AtSeparatedOption => BindsAndSkipsNext ]_vars

(***************************************************************************)
(* C13 as amended.  The same for a token '-o' that the scan classifies and *)
(* whose identifier no registered flag shares; and a token read as a value *)
(* stays behind the index, which never moves back, so that no later step   *)
(* classifies it.                                                          *)
(***************************************************************************)
C13_SeparatedValueSkipped_Amended ==
    [][ /\ (AtSeparatedOption /\ ~IsFlagId(Id(call.index))) => BindsAndSkipsNext
        /\ call.pc = "scan" =>
              /\ call'.index >= call.index
              /\ \A i \in call'.consumed : i < call'.index
      ]_vars

\* '-o' took the flag-shaped token '-a' as its value: the registered flag a
\* is still false and the call succeeded.
C13_Witness ==
    /\ so.argC >= 3
    /\ call.pc = "done"
    /\ call.status = "SUCCESS"
    /\ Arg(so, 1) = << "-", "o" >>
    /\ Arg(so, 2) = << "-", "a" >>
    /\ 2 \in call.consumed
    /\ IsFlagId("a")
    /\ mem.flag = << FALSE >>
    /\ mem.opt = << Ptr(<< "-", "a" >>) >>


\* Flag k is not the first flag with its identifier.
ShadowedFlag(k) ==
    \E j \in 1..(k - 1) : so.flags[j].prefixShort = so.flags[k].prefixShort

\* Option k is not the first rule with its identifier: a flag or an earlier
\* option has it too.
ShadowedOption(k) ==
    \/ IsFlagId(so.options[k].prefixShort)
    \/ \E j \in 1..(k - 1) : so.options[j].prefixShort = so.options[k].prefixShort

\* The scan stands on a marker token.
AtMarker ==
    /\ call.pc = "scan"
    /\ call.index < so.argC
    /\ IsMarker(Arg(so, call.index))
    /\ Len(Arg(so, call.index)) >= 2

(***************************************************************************)
(* C14.  First-registered-wins, flags before options: a token whose first  *)
(* body character is c leaves the destination of every rule with           *)
(* identifier c other than the first in scan order unchanged, and sets the *)
(* first flag with identifier c when there is one; an option that is not   *)
(* the first rule with its identifier is never bound.                      *)
(***************************************************************************)
C14_FirstRegisteredWins ==
    [][ /\ AtMarker =>
              /\ \A k \in 1..Len(so.flags) :
                    (so.flags[k].prefixShort = Id(call.index) /\ ShadowedFlag(k))
                        => mem'.flag[k] = mem.flag[k]
              /\ \A k \in 1..Len(so.options) :
                    (so.options[k].prefixShort = Id(call.index) /\ ShadowedOption(k))
                        => mem'.opt[k] = mem.opt[k]
              /\ \A k \in 1..Len(so.flags) :
                    (so.flags[k].prefixShort = Id(call.index) /\ ~ShadowedFlag(k))
                        => mem'.flag[k]
        /\ call.pc = "scan" =>
              \A k \in 1..Len(so.options) : ShadowedOption(k) => mem'.opt[k] = NULL
      ]_vars

\* Two flags share the identifier a and the token '-a' was scanned: only
\* the first of them is set.
C14_Witness ==
    /\ call.pc = "done"
    /\ Len(so.flags) = 2
    /\ so.flags[1].prefixShort = "a"
    /\ so.flags[2].prefixShort = "a"
    /\ \E i \in MarkerIdx : Id(i) = "a"
    /\ mem.flag = << TRUE, FALSE >>


\* The vector cut after its first n tokens (the program path is argv[0]).
Upto(n) == SubSeq(so.argV, 1, n)

(***************************************************************************)
(* C15.  Invalid argument is a hard stop: when ProcessCommandArgs returns  *)
(* INVALID_ARGUMENT because of the token at index i, the index stays at i, *)
(* no token after i was read as a value or counted, and every destination  *)
(* holds exactly what processing tokens 1..i-1 alone produces.             *)
(***************************************************************************)
C15_InvalidArgumentHardStop ==
    AtEntry =>
       LET r == Parse(so, mem, so.argV)
           i == r.call.index
       IN  r.call.status = "INVALID_ARGUMENT" =>
             /\ r.call.pc = "done"
             /\ i \in TokenIdx
             /\ IsMarker(Arg(so, i))
             /\ r.call.consumed \subseteq 1..(i - 1)
             /\ r.call.posArgsCount =
                   Cardinality({ j \in 1..(i - 1) :
                                   j \notin r.call.consumed /\ ~IsMarker(Arg(so, j)) })
             /\ r.mem = Parse(so, mem, Upto(i)).mem

\* The call stopped on an unknown second token after the flag token '-a'
\* and before a positional token: the flag is set, the slot is as it was.
C15_Witness ==
    /\ so.argC = 4
    /\ call.pc = "done"
    /\ call.status = "INVALID_ARGUMENT"
    /\ call.index = 2
    /\ Arg(so, 1) = << "-", "a" >>
    /\ ~IsMarker(Arg(so, 3))
    /\ Len(so.posArgs) = 1
    /\ mem.flag = << TRUE >>
    /\ mem.pos[1] \in PriorPtrs


(***************************************************************************)
(* C16.  Argument-vector accesses stay in bounds: while the scan runs the  *)
(* index is in 1..argc, and a token is read only at an index in            *)
(* 1..argc-1; the following token is read as a separated value only when   *)
(* the index is strictly less than argc-1; after it the index does not     *)
(* exceed argc; and every step of the scan that does not end the call      *)
(* moves the index forward, so that no token is visited twice.             *)
(***************************************************************************)
C16_AccessesInBounds ==
    [][ /\ call'.pc = "scan" => call'.index \in 1..so'.argC
        /\ (call.pc = "scan" /\ call.index < so.argC) =>
              /\ call.index \in 1..(so.argC - 1)
              /\ call'.consumed # call.consumed =>
                    /\ call.index < so.argC - 1
                    /\ call'.consumed = call.consumed \cup { call.index + 1 }
                    /\ call'.index = call.index + 2
              /\ call'.consumed \subseteq 2..(so.argC - 1)
              /\ call'.index <= so.argC
              /\ call'.pc = "scan" => call'.index > call.index
              /\ call'.pc # "scan" => call'.index = call.index
      ]_vars

\* The last token was read as the value of the option token before it, and
\* the index stands at argc.
C16_Witness ==
    /\ call.pc = "scan"
    /\ so.argC >= 3
    /\ call.index = so.argC
    /\ (so.argC - 1) \in call.consumed


\* Flag tokens with further characters after the identifier, the further
\* characters being identifiers themselves or not.
GroupedTokens ==
    { << "-", a >> \o rest :
        a \in FlagIds,
        rest \in { << b >> : b \in FlagIds \cup OptionIds \cup { "x" } }
                 \cup { << "a", "p" >>, << "o", "x" >> } }

\* The destinations with the first flag of identifier ch set and nothing
\* else written.
OnlyFlagSet(m, ch) ==
    [m EXCEPT !.flag = [k \in 1..Len(m.flag) |->
                          m.flag[k] \/ k = FirstMatch(so.flags, ch)]]

=============================================================================
